---- MODULE Spec2Model ----
(***************************************************************************)
(* A model of the teaching ciphers of the repository: Simplified DES       *)
(* (01_des/des.cpp), Simplified AES (02_aes/AES.cpp) and the modular       *)
(* exponentiation of the Diffie-Hellman demo (04.2_diffie_hellman).        *)
(*                                                                         *)
(* Bit vectors (vector<int>) are sequences of 0/1; C++ index i is TLA+     *)
(* index i + 1.  Fixed-width integers (uint8_t, uint16_t) are naturals     *)
(* reduced modulo 2^8 / 2^16 wherever the code stores them.                *)
(***************************************************************************)
EXTENDS Naturals, Sequences, FiniteSets

VARIABLES
    \* --- a call of a pure function: which one, its arguments, what it returned
    fn, args, rets,
    \* --- 01_des/des.cpp main(): the menu loop's locals and what it printed
    input, key, decrypt, running, choice, entered, output, sdesArgs,
    \* --- 02_aes/AES.cpp: the SimplifiedAES object and main()'s locals
    preRoundKey, round1Key, round2Key,
    aesKey, plaintext, enc, dec, aesPc, calls

harnessVars == <<fn, args, rets>>
menuVars    == <<input, key, decrypt, running, choice, entered, output, sdesArgs>>
aesVars     == <<preRoundKey, round1Key, round2Key, aesKey, plaintext, enc, dec, aesPc, calls>>
vars        == <<harnessVars, menuVars, aesVars>>

(***************************************************************************)
(* Bitwise operators of C++ on non-negative integers.                      *)
(***************************************************************************)
RECURSIVE XorInt(_, _)
XorInt(x, y) ==
    IF x = 0 THEN y
    ELSE IF y = 0 THEN x
    ELSE (((x % 2) + (y % 2)) % 2) + 2 * XorInt(x \div 2, y \div 2)

RECURSIVE AndInt(_, _)
AndInt(x, y) ==
    IF x = 0 \/ y = 0 THEN 0
    ELSE ((x % 2) * (y % 2)) + 2 * AndInt(x \div 2, y \div 2)

RECURSIVE OrInt(_, _)
OrInt(x, y) ==
    IF x = 0 THEN y
    ELSE IF y = 0 THEN x
    ELSE (IF x % 2 = 1 \/ y % 2 = 1 THEN 1 ELSE 0) + 2 * OrInt(x \div 2, y \div 2)

Shl(x, n) == x * 2^n
Shr(x, n) == x \div 2^n

\* the widths of cipher A: an 8-bit block and a 10-bit key
BlockBits == 8
KeyBits == 10

\* how many keys, and how many widths either side of 8, the width check draws
NumSampleKeys == 3
WidthSlack == 1
\* the longest string typed at a prompt, and the largest menu number entered
MaxStrLen == 11
MaxChoice == 7
\* the arguments power is called on
MaxBase == 6
MaxExp == 6
MaxModulus == 7
\* how many keys and plaintexts main() of AES.cpp is run on, and how many keys
\* and blocks a SimplifiedAES object is called with
NumKeys == 16
NumPlaintexts == 1024
NumEngineKeys == 3
NumEngineBlocks == 3

Bit == {0, 1}
BitVectors(n) == [1..n -> Bit]

(***************************************************************************)
(* 01_des/des.cpp : tables                                                 *)
(***************************************************************************)
P10 == <<3, 5, 2, 7, 4, 10, 1, 9, 8, 6>>
P8 == <<6, 3, 7, 4, 8, 5, 10, 9>>
P4 == <<2, 4, 3, 1>>
IP == <<2, 6, 3, 1, 4, 8, 5, 7>>
IP_INV == <<4, 1, 3, 5, 7, 2, 8, 6>>
E_P == <<4, 1, 2, 3, 2, 3, 4, 1>>

S0 == << <<1, 0, 3, 2>>,
         <<3, 2, 1, 0>>,
         <<0, 2, 1, 3>>,
         <<3, 1, 3, 2>> >>

S1 == << <<0, 1, 2, 3>>,
         <<2, 0, 1, 3>>,
         <<3, 0, 1, 0>>,
         <<2, 1, 0, 3>> >>

(***************************************************************************)
(* 01_des/des.cpp : utility functions                                      *)
(***************************************************************************)
\* result[i] = arr[perm[i] - 1]
permute(arr, perm, size) == [i \in 1..size |-> arr[perm[i]]]

\* shifted[i] = bits[(i + shifts) % bits.size()]
leftShift(bits, shifts) ==
    [i \in 1..Len(bits) |-> bits[(((i - 1) + shifts) % Len(bits)) + 1]]

\* res[i] = a[i] ^ b[i], over a.size() elements
XOR(a, b) == [i \in 1..Len(a) |-> XorInt(a[i], b[i])]

\* bits[i] = val & 1; val >>= 1, filled from the last position
intToBin(val, size) == [i \in 1..size |-> AndInt(Shr(val, size - i), 1)]

sBoxAdjacent(inp, sMatrix) ==
    LET row == OrInt(Shl(inp[1], 1), inp[2])
        col == OrInt(Shl(inp[3], 1), inp[4])
    IN  intToBin(sMatrix[row + 1][col + 1], 2)

sBox(inp, sMatrix) ==
    LET row == OrInt(Shl(inp[1], 1), inp[4])
        col == OrInt(Shl(inp[2], 1), inp[3])
        val == sMatrix[row + 1][col + 1]
    IN  intToBin(val, 2)

(***************************************************************************)
(* 01_des/des.cpp : key generation, F-function, S-DES                      *)
(***************************************************************************)
generateKeysFromUnshifted(k) ==
    LET p10    == permute(k, P10, 10)
        left0  == SubSeq(p10, 1, 5)
        right0 == SubSeq(p10, 6, 10)
        k1     == permute(leftShift(left0, 1) \o leftShift(right0, 1), P8, 8)
        k2     == permute(leftShift(left0, 2) \o leftShift(right0, 2), P8, 8)
    IN  <<k1, k2>>

generateKeys(k) ==
    LET p10    == permute(k, P10, 10)
        left0  == SubSeq(p10, 1, 5)
        right0 == SubSeq(p10, 6, 10)
        \* LS-1
        left1  == leftShift(left0, 1)
        right1 == leftShift(right0, 1)
        k1     == permute(left1 \o right1, P8, 8)
        \* LS-2, on the halves LS-1 left behind
        left2  == leftShift(left1, 2)
        right2 == leftShift(right1, 2)
        k2     == permute(left2 \o right2, P8, 8)
    IN  <<k1, k2>>

functionF(left, right, k) ==
    LET temp     == XOR(permute(right, E_P, 8), k)
        left4    == SubSeq(temp, 1, 4)
        right4   == SubSeq(temp, 5, 8)
        s0_out   == sBox(left4, S0)
        s1_out   == sBox(right4, S1)
        combined == permute(s0_out \o s1_out, P4, 4)
        result   == XOR(left, combined)
    IN  result \o right

sdesNoKeySwap(inp, k, dcr) ==
    LET ks  == generateKeys(k)
        ip  == permute(inp, IP, 8)
        f1  == functionF(SubSeq(ip, 1, 4), SubSeq(ip, 5, 8), ks[1])
        f2  == functionF(SubSeq(f1, 5, 8), SubSeq(f1, 1, 4), ks[2])
    IN  permute(f2, IP_INV, 8)

sdes(inp, k, dcr) ==
    LET ks  == generateKeys(k)
        k1  == IF dcr THEN ks[2] ELSE ks[1]
        k2  == IF dcr THEN ks[1] ELSE ks[2]
        ip  == permute(inp, IP, 8)
        left  == SubSeq(ip, 1, 4)
        right == SubSeq(ip, 5, 8)
        f1  == functionF(left, right, k1)
        swapped_left  == SubSeq(f1, 5, 8)
        swapped_right == SubSeq(f1, 1, 4)
        f2  == functionF(swapped_left, swapped_right, k2)
    IN  permute(f2, IP_INV, 8)

(***************************************************************************)
(* 02_aes/AES.cpp : class SimplifiedAES.  A state is the vector of four    *)
(* nibbles intToState builds; the object's fields are the variables        *)
(* preRoundKey, round1Key, round2Key.  uint8_t and uint16_t results are    *)
(* reduced modulo 2^8 and 2^16.                                            *)
(***************************************************************************)
U8(x)  == x % 2^8
U16(x) == x % 2^16

AES_sBox == <<9, 4, 10, 11, 13, 1, 8, 5, 6, 2, 0, 3, 12, 14, 15, 7>>
sBoxI    == <<10, 5, 9, 11, 1, 7, 8, 15, 6, 0, 2, 3, 12, 4, 13, 14>>

\* (sBox[(word >> 4)] << 4) | sBox[word & 0x0F]
subWord(word) ==
    U8(OrInt(Shl(AES_sBox[Shr(word, 4) + 1], 4), AES_sBox[AndInt(word, 15) + 1]))

rotWordIdentity(word) == U8(word)

\* ((word & 0x0F) << 4) | ((word & 0xF0) >> 4)
rotWord(word) == U8(OrInt(Shl(AndInt(word, 15), 4), Shr(AndInt(word, 240), 4)))

intToState(n) ==
    << AndInt(Shr(n, 12), 15), AndInt(Shr(n, 4), 15),
       AndInt(Shr(n, 8), 15),  AndInt(n, 15) >>

stateToInt(m) == U16(Shl(m[1], 12) + Shl(m[3], 8) + Shl(m[2], 4) + m[4])

Rcon1 == 128
Rcon2 == 48

keyExpansion(k) ==
    LET w0 == U8(Shr(AndInt(k, 65280), 8))
        w1 == U8(AndInt(k, 255))
        w2 == U8(XorInt(w0, XorInt(subWord(rotWord(w1)), Rcon1)))
        w3 == U8(XorInt(w2, w1))
        w4 == U8(XorInt(w2, XorInt(subWord(rotWord(w3)), Rcon2)))
        w5 == U8(XorInt(w4, w3))
        k0 == intToState(U16(Shl(w0, 8) + w1))
        k1 == intToState(U16(Shl(w2, 8) + w3))
        k2 == intToState(U16(Shl(w4, 8) + w5))
    IN  <<k0, k1, k2>>

\* the loop of gfMult: while (b) { ... }
RECURSIVE gfMultLoop(_, _, _)
gfMultLoop(product, a, b) ==
    IF b = 0 THEN product
    ELSE LET p1 == IF AndInt(b, 1) # 0 THEN U8(XorInt(product, a)) ELSE product
             a1 == U8(Shl(a, 1))
             a2 == IF AndInt(a1, Shl(1, 4)) # 0 THEN U8(XorInt(a1, 19)) ELSE a1
         IN  gfMultLoop(p1, a2, Shr(b, 1))

RECURSIVE gfMultLoopNoReduce(_, _, _)
gfMultLoopNoReduce(product, a, b) ==
    IF b = 0 THEN product
    ELSE LET p1 == IF AndInt(b, 1) # 0 THEN U8(XorInt(product, a)) ELSE product
         IN  gfMultLoopNoReduce(p1, U8(Shl(a, 1)), Shr(b, 1))

gfMultNoReduce(a, b) == gfMultLoopNoReduce(0, AndInt(a, 15), AndInt(b, 15))

gfMult(a, b) == gfMultLoop(0, AndInt(a, 15), AndInt(b, 15))

addRoundKey(s1, s2) == [i \in 1..4 |-> U8(XorInt(s1[i], s2[i]))]
subNibbles(sbox, state) == [i \in 1..4 |-> sbox[state[i] + 1]]
shiftRows(state) == <<state[1], state[2], state[4], state[3]>>

mixColumns(state) ==
    << U8(XorInt(state[1], gfMult(4, state[3]))),
       U8(XorInt(state[2], gfMult(4, state[4]))),
       U8(XorInt(state[3], gfMult(4, state[1]))),
       U8(XorInt(state[4], gfMult(4, state[2]))) >>

inverseMixColumns(state) ==
    << U8(XorInt(gfMult(9, state[1]), gfMult(2, state[3]))),
       U8(XorInt(gfMult(9, state[2]), gfMult(2, state[4]))),
       U8(XorInt(gfMult(9, state[3]), gfMult(2, state[1]))),
       U8(XorInt(gfMult(9, state[4]), gfMult(2, state[2]))) >>

\* Decrypt with the layers of Encrypt merely run under the keys in reverse
DecryptReversedKeysOnly(ciphertext) ==
    LET st1 == addRoundKey(round2Key, intToState(ciphertext))
        st2 == mixColumns(shiftRows(subNibbles(sBoxI, st1)))
        st3 == addRoundKey(round1Key, st2)
        st4 == shiftRows(subNibbles(sBoxI, st3))
        st5 == addRoundKey(preRoundKey, st4)
    IN  stateToInt(st5)

Encrypt(p) ==
    LET st1 == addRoundKey(preRoundKey, intToState(p))
        st2 == mixColumns(shiftRows(subNibbles(AES_sBox, st1)))
        st3 == addRoundKey(round1Key, st2)
        st4 == shiftRows(subNibbles(AES_sBox, st3))
        st5 == addRoundKey(round2Key, st4)
    IN  stateToInt(st5)

Decrypt(ciphertext) ==
    LET st1 == addRoundKey(round2Key, intToState(ciphertext))
        st2 == subNibbles(sBoxI, shiftRows(st1))
        st3 == inverseMixColumns(addRoundKey(round1Key, st2))
        st4 == subNibbles(sBoxI, shiftRows(st3))
        st5 == addRoundKey(preRoundKey, st4)
    IN  stateToInt(st5)

(***************************************************************************)
(* 04.2_diffie_hellman/diffie_hellman.cpp : power.  The arguments checked  *)
(* are far below the width of long long, so no product overflows.          *)
(***************************************************************************)
RECURSIVE powerLoop(_, _, _, _)
powerLoop(result, base, exp, modulus) ==
    IF exp > 0
    THEN powerLoop(IF exp % 2 = 1 THEN (result * base) % modulus ELSE result,
                   (base * base) % modulus, Shr(exp, 1), modulus)
    ELSE result

power(base, exp, modulus) == powerLoop(1, base % modulus, exp, modulus)

(***************************************************************************)
(* What a call sdes(input, key, decrypt) produces.  sdes checks no width:  *)
(* permute(input, IP, 8) reads input[0..7].  A longer input is read in its *)
(* first 8 elements only; a shorter one is read past its end, which is     *)
(* undefined: the call may return the block computed from whatever bits    *)
(* lie behind the vector, or do anything else ("undefined").               *)
(***************************************************************************)
Returned(block) == [status |-> "returned", block |-> block]
UndefinedOutcome == [status |-> "undefined", block |-> <<>>]

sdesOutcomes(inp, k, dcr) ==
    IF Len(k) < KeyBits \/ (\E i \in DOMAIN inp : inp[i] \notin Bit)
                       \/ (\E i \in DOMAIN k : k[i] \notin Bit)
    THEN {UndefinedOutcome}
    ELSE IF Len(inp) >= BlockBits
    THEN {Returned(sdes(inp, k, dcr))}
    ELSE {Returned(sdes(inp \o g, k, dcr)) : g \in BitVectors(BlockBits - Len(inp))}
         \cup {UndefinedOutcome}

(***************************************************************************)
(* The values the variables of the programs not under check keep.          *)
(***************************************************************************)
\* what an iteration of the menu printed last: a line and, with a result, its bits
Printed(text, bits) == [text |-> text, bits |-> bits]

HarnessIdle == fn = "none" /\ args = <<>> /\ rets = <<>>
MenuIdle ==
    /\ input = <<>> /\ key = <<>> /\ decrypt = FALSE
    /\ running = FALSE /\ choice = 0 /\ entered = <<>>
    /\ output = Printed("", <<>>) /\ sdesArgs = <<>>
AESIdle ==
    /\ preRoundKey = <<>> /\ round1Key = <<>> /\ round2Key = <<>>
    /\ aesKey = 0 /\ plaintext = 0 /\ enc = 0 /\ dec = 0
    /\ aesPc = "none" /\ calls = {}

(***************************************************************************)
(* 01_des/des.cpp : parseBits and the interactive menu of main().  A       *)
(* string is the sequence of its characters' codes; what an iteration of   *)
(* the loop printed last is kept in output.                                *)
(***************************************************************************)
Char0 == 48
Char1 == 49

parseBitsSizeOnly(s, expected) ==
    IF Len(s) # expected THEN <<>> ELSE [i \in 1..expected |-> s[i] - Char0]

\* s.size() != expected || s.find_first_not_of("01") != npos: print, return {}
parseBits(s, expected) ==
    IF Len(s) # expected \/ (\E i \in 1..Len(s) : s[i] \notin {Char0, Char1})
    THEN <<>>
    ELSE [i \in 1..expected |-> s[i] - Char0]

\* the strings typed at the prompts: a two-character pattern over '0', '1',
\* '2', repeated to a length around the 8 and 10 bits asked for, or nothing
Patterns == {<<a, b>> : a \in Char0..(Char1 + 1), b \in Char0..(Char1 + 1)}
Repeat(seed, n) == [i \in 1..n |-> seed[((i - 1) % Len(seed)) + 1]]
Typed == {Repeat(p, n) : p \in Patterns, n \in {0} \cup ((BlockBits - 1)..MaxStrLen)}
Modes == {"encrypt", "decrypt", "Decrypt"}

InitMenu ==
    /\ input = <<>> /\ key = <<>> /\ decrypt = FALSE
    /\ running = TRUE /\ choice = 0 /\ entered = <<>>
    /\ output = Printed("", <<>>) /\ sdesArgs = <<>>
    /\ HarnessIdle /\ AESIdle

\* !(cin >> choice): the stream is cleared, "Invalid choice.", continue
ChoiceUnreadable ==
    /\ running
    /\ choice' = 0
    /\ output' = Printed("Invalid choice.", <<>>)
    /\ sdesArgs' = <<>>
    /\ UNCHANGED <<input, key, decrypt, running, entered, harnessVars, aesVars>>

Choice1 ==
    /\ running
    /\ \E s \in Typed :
          /\ entered' = s
          /\ input' = parseBits(s, BlockBits)
          /\ output' = IF parseBits(s, BlockBits) = <<>>
                       THEN Printed("Invalid input. Must be 8 bits (0 or 1 only).", <<>>)
                       ELSE Printed("Enter 8-bit input: ", <<>>)
    /\ choice' = 1
    /\ sdesArgs' = <<>>
    /\ UNCHANGED <<key, decrypt, running, harnessVars, aesVars>>

Choice2 ==
    /\ running
    /\ \E s \in Typed :
          /\ entered' = s
          /\ key' = parseBits(s, KeyBits)
          /\ output' = IF parseBits(s, KeyBits) = <<>>
                       THEN Printed("Invalid input. Must be 10 bits (0 or 1 only).", <<>>)
                       ELSE Printed("Enter 10-bit key: ", <<>>)
    /\ choice' = 2
    /\ sdesArgs' = <<>>
    /\ UNCHANGED <<input, decrypt, running, harnessVars, aesVars>>

Choice3 ==
    /\ running
    /\ \E mode \in Modes :
          /\ decrypt' = (mode = "decrypt")
          /\ output' = Printed(IF mode = "decrypt" THEN "Mode set to Decrypt."
                                                   ELSE "Mode set to Encrypt.", <<>>)
    /\ choice' = 3
    /\ sdesArgs' = <<>>
    /\ UNCHANGED <<input, key, running, entered, harnessVars, aesVars>>

Choice4NoEmptyKeyCheck ==
    /\ running
    /\ choice' = 4
    /\ IF input = <<>>
       THEN /\ output' = Printed("Please enter input and key first.", <<>>)
            /\ sdesArgs' = <<>>
       ELSE /\ sdesArgs' = <<input, key, decrypt>>
            /\ \E r \in sdesOutcomes(input, key, decrypt) :
                  output' = Printed(IF r.status = "returned" THEN "Result: "
                                                            ELSE "undefined", r.block)
    /\ UNCHANGED <<input, key, decrypt, running, entered, harnessVars, aesVars>>

Choice4 ==
    /\ running
    /\ choice' = 4
    /\ IF input = <<>> \/ key = <<>>
       THEN /\ output' = Printed("Please enter input and key first.", <<>>)
            /\ sdesArgs' = <<>>
       ELSE /\ sdesArgs' = <<input, key, decrypt>>
            /\ \E r \in sdesOutcomes(input, key, decrypt) :
                  output' = Printed(IF r.status = "returned" THEN "Result: "
                                                            ELSE "undefined", r.block)
    /\ UNCHANGED <<input, key, decrypt, running, entered, harnessVars, aesVars>>

Choice5 ==
    /\ running
    /\ choice' = 5
    /\ output' = Printed("Exiting.", <<>>)
    /\ running' = FALSE
    /\ sdesArgs' = <<>>
    /\ UNCHANGED <<input, key, decrypt, entered, harnessVars, aesVars>>

ChoiceOther ==
    /\ running
    /\ \E c \in 0..MaxChoice : c \notin 1..5 /\ choice' = c
    /\ output' = Printed("Invalid option.", <<>>)
    /\ sdesArgs' = <<>>
    /\ UNCHANGED <<input, key, decrypt, running, entered, harnessVars, aesVars>>

NextMenu ==
    \/ ChoiceUnreadable \/ Choice1 \/ Choice2 \/ Choice3
    \/ Choice4 \/ Choice5 \/ ChoiceOther

SpecMenu == InitMenu /\ [][NextMenu]_vars

(***************************************************************************)
(* generateKeys, called on every 10-bit key.                               *)
(***************************************************************************)
InitGenerateKeys ==
    /\ fn = "generateKeys"
    /\ args \in {<<k>> : k \in BitVectors(KeyBits)}
    /\ rets = <<>>
    /\ MenuIdle /\ AESIdle

CallGenerateKeys ==
    /\ fn = "generateKeys" /\ rets = <<>>
    /\ rets' = <<generateKeys(args[1])>>
    /\ UNCHANGED <<fn, args, menuVars, aesVars>>

SpecGenerateKeys == InitGenerateKeys /\ [][CallGenerateKeys]_vars

(***************************************************************************)
(* functionF, called on every 4-bit left, 4-bit right and 8-bit round key. *)
(***************************************************************************)
InitFunctionF ==
    /\ fn = "functionF"
    /\ args \in BitVectors(4) \X BitVectors(4) \X BitVectors(BlockBits)
    /\ rets = <<>>
    /\ MenuIdle /\ AESIdle

CallFunctionF ==
    /\ fn = "functionF" /\ rets = <<>>
    /\ rets' = <<functionF(args[1], args[2], args[3])>>
    /\ UNCHANGED <<fn, args, menuVars, aesVars>>

SpecFunctionF == InitFunctionF /\ [][CallFunctionF]_vars

(***************************************************************************)
(* sdes: a block is encrypted, and what was returned is decrypted under    *)
(* the same key, on every 8-bit block and 10-bit key (SpecSdes); and a     *)
(* block of 8 bits, or a bit more or less, is encrypted or decrypted       *)
(* (SpecSdesWidth).                                                        *)
(***************************************************************************)
SampleKeys == {intToBin((n * 619) % 2^KeyBits, KeyBits) : n \in 1..NumSampleKeys}
Widths == (BlockBits - WidthSlack)..(BlockBits + WidthSlack)

InitSdes ==
    /\ fn = "sdes"
    /\ args \in BitVectors(BlockBits) \X BitVectors(KeyBits)
    /\ rets = <<>>
    /\ MenuIdle /\ AESIdle

InitSdesWidth ==
    /\ fn = "sdes"
    /\ args \in (UNION {BitVectors(w) : w \in Widths}) \X SampleKeys
    /\ rets = <<>>
    /\ MenuIdle /\ AESIdle

SdesEncrypt ==
    /\ fn = "sdes" /\ rets = <<>>
    /\ \E r \in sdesOutcomes(args[1], args[2], FALSE) : rets' = <<r>>
    /\ UNCHANGED <<fn, args, menuVars, aesVars>>

SdesDecrypt ==
    /\ fn = "sdes" /\ Len(rets) = 1 /\ rets[1].status = "returned"
    /\ \E r \in sdesOutcomes(rets[1].block, args[2], TRUE) : rets' = Append(rets, r)
    /\ UNCHANGED <<fn, args, menuVars, aesVars>>

\* a decrypt request on the block itself
SdesDecryptBlock ==
    /\ fn = "sdes" /\ rets = <<>>
    /\ \E r \in sdesOutcomes(args[1], args[2], TRUE) : rets' = <<r>>
    /\ UNCHANGED <<fn, args, menuVars, aesVars>>

NextSdes == SdesEncrypt \/ SdesDecrypt
NextSdesWidth == SdesEncrypt \/ SdesDecryptBlock

SpecSdes == InitSdes /\ [][NextSdes]_vars
SpecSdesWidth == InitSdesWidth /\ [][NextSdesWidth]_vars

(***************************************************************************)
(* gfMult, called on every pair of 4-bit values: on (a, b), on (b, a) and  *)
(* on (a, 0).                                                              *)
(***************************************************************************)
InitGfMult ==
    /\ fn = "gfMult"
    /\ args \in (0..15) \X (0..15)
    /\ rets = <<>>
    /\ MenuIdle /\ AESIdle

CallGfMult ==
    /\ fn = "gfMult" /\ rets = <<>>
    /\ rets' = <<gfMult(args[1], args[2]), gfMult(args[2], args[1]), gfMult(args[1], 0)>>
    /\ UNCHANGED <<fn, args, menuVars, aesVars>>

SpecGfMult == InitGfMult /\ [][CallGfMult]_vars

(***************************************************************************)
(* keyExpansion, called on every 16-bit key.                               *)
(***************************************************************************)
InitKeyExpansion ==
    /\ fn = "keyExpansion"
    /\ args \in {<<k>> : k \in 0..(2^16 - 1)}
    /\ rets = <<>>
    /\ MenuIdle /\ AESIdle

CallKeyExpansion ==
    /\ fn = "keyExpansion" /\ rets = <<>>
    /\ rets' = <<keyExpansion(args[1])>>
    /\ UNCHANGED <<fn, args, menuVars, aesVars>>

SpecKeyExpansion == InitKeyExpansion /\ [][CallKeyExpansion]_vars

(***************************************************************************)
(* power, called on small bases, exponents and moduli.                     *)
(***************************************************************************)
InitPower ==
    /\ fn = "power"
    /\ args \in (0..MaxBase) \X (0..MaxExp) \X (1..MaxModulus)
    /\ rets = <<>>
    /\ MenuIdle /\ AESIdle

CallPower ==
    /\ fn = "power" /\ rets = <<>>
    /\ rets' = <<power(args[1], args[2], args[3])>>
    /\ UNCHANGED <<fn, args, menuVars, aesVars>>

SpecPower == InitPower /\ [][CallPower]_vars

(***************************************************************************)
(* 02_aes/AES.cpp : main(), with the key and the plaintext drawn from a    *)
(* sample that holds main's own 0x4AF5 and 0xD728.                         *)
(***************************************************************************)
MainKey == 19189
MainPlaintext == 55080
Keys16 == {U16(MainKey + i * 40503) : i \in 0..(NumKeys - 1)}
Plaintexts16 == {U16(MainPlaintext + j * 27145) : j \in 0..(NumPlaintexts - 1)}

InitAESMain ==
    /\ aesPc = "start"
    /\ aesKey \in Keys16 /\ plaintext \in Plaintexts16
    /\ enc = 0 /\ dec = 0
    /\ preRoundKey = <<>> /\ round1Key = <<>> /\ round2Key = <<>>
    /\ calls = {}
    /\ HarnessIdle /\ MenuIdle

\* SimplifiedAES saes(key)
MainConstruct ==
    /\ aesPc = "start"
    /\ LET ks == keyExpansion(aesKey)
       IN  preRoundKey' = ks[1] /\ round1Key' = ks[2] /\ round2Key' = ks[3]
    /\ aesPc' = "constructed"
    /\ UNCHANGED <<aesKey, plaintext, enc, dec, calls, harnessVars, menuVars>>

\* enc = saes.Encrypt(plaintext)
MainEncrypt ==
    /\ aesPc = "constructed"
    /\ enc' = Encrypt(plaintext)
    /\ aesPc' = "encrypted"
    /\ UNCHANGED <<preRoundKey, round1Key, round2Key, aesKey, plaintext, dec, calls,
                   harnessVars, menuVars>>

\* dec = saes.Decrypt(enc)
MainDecrypt ==
    /\ aesPc = "encrypted"
    /\ dec' = Decrypt(enc)
    /\ aesPc' = "decrypted"
    /\ UNCHANGED <<preRoundKey, round1Key, round2Key, aesKey, plaintext, enc, calls,
                   harnessVars, menuVars>>

NextAESMain == MainConstruct \/ MainEncrypt \/ MainDecrypt

SpecAESMain == InitAESMain /\ [][NextAESMain]_vars

(***************************************************************************)
(* 02_aes/AES.cpp : a SimplifiedAES object after its constructor, called   *)
(* with Encrypt and Decrypt in any order; calls keeps what each call was   *)
(* given and returned.                                                     *)
(***************************************************************************)
EngineKeys == {U16(MainKey + i * 40503) : i \in 0..(NumEngineKeys - 1)}
EngineBlocks == {U16(MainPlaintext + j * 27145) : j \in 0..(NumEngineBlocks - 1)}

InitEngine ==
    /\ aesPc = "object"
    /\ aesKey \in EngineKeys
    /\ LET ks == keyExpansion(aesKey)
       IN  preRoundKey = ks[1] /\ round1Key = ks[2] /\ round2Key = ks[3]
    /\ plaintext = 0 /\ enc = 0 /\ dec = 0
    /\ calls = {}
    /\ HarnessIdle /\ MenuIdle

\* an Encrypt that adds the round key into the stored key itself
EngineEncryptInPlace ==
    /\ aesPc = "object"
    /\ \E p \in EngineBlocks :
          /\ calls' = calls \cup {[op |-> "Encrypt", arg |-> p, ret |-> Encrypt(p)]}
          /\ preRoundKey' = addRoundKey(preRoundKey, intToState(p))
    /\ UNCHANGED <<round1Key, round2Key, aesKey, plaintext, enc, dec, aesPc,
                   harnessVars, menuVars>>

EngineEncrypt ==
    /\ aesPc = "object"
    /\ \E p \in EngineBlocks :
          calls' = calls \cup {[op |-> "Encrypt", arg |-> p, ret |-> Encrypt(p)]}
    /\ UNCHANGED <<preRoundKey, round1Key, round2Key, aesKey, plaintext, enc, dec, aesPc,
                   harnessVars, menuVars>>

EngineDecrypt ==
    /\ aesPc = "object"
    /\ \E c \in EngineBlocks :
          calls' = calls \cup {[op |-> "Decrypt", arg |-> c, ret |-> Decrypt(c)]}
    /\ UNCHANGED <<preRoundKey, round1Key, round2Key, aesKey, plaintext, enc, dec, aesPc,
                   harnessVars, menuVars>>

NextEngine == EngineEncrypt \/ EngineDecrypt

SpecEngine == InitEngine /\ [][NextEngine]_vars

(***************************************************************************)
(* Claims about cipher A, stated without the code's helpers: a rotation is *)
(* a cut-and-paste of the sequence, a permutation is written out, and an   *)
(* exclusive or of two bits is their sum modulo 2.                         *)
(***************************************************************************)
rotl(v, n) == SubSeq(v, (n % Len(v)) + 1, Len(v)) \o SubSeq(v, 1, n % Len(v))
P10Of(k) == <<k[3], k[5], k[2], k[7], k[4], k[10], k[1], k[9], k[8], k[6]>>
P8Of(c)  == <<c[6], c[3], c[7], c[4], c[8], c[5], c[10], c[9]>>
P4Of(c)  == <<c[2], c[4], c[3], c[1]>>
EPOf(r)  == <<r[4], r[1], r[2], r[3], r[2], r[3], r[4], r[1]>>
BitXorSeq(a, b) == [i \in 1..Len(a) |-> (a[i] + b[i]) % 2]
SboxLookup(g, S) ==
    LET v == S[(2 * g[1] + g[4]) + 1][(2 * g[2] + g[3]) + 1]
    IN  <<v \div 2, v % 2>>

\* C1: decrypting what sdes encrypted, under the same key, gives back the
\* block, for every 8-bit block and 10-bit key; and each call returns exactly
\* 8 bits of 0/1.
C1_RoundTrip ==
    /\ \A i \in DOMAIN rets :
          rets[i].status = "returned" /\ rets[i].block \in BitVectors(BlockBits)
    /\ Len(rets) = 2 => rets[2].block = args[1]

C1_Witness ==
    /\ fn = "sdes" /\ Len(rets) = 2
    /\ rets[1].block # args[1]
    /\ rets[2].block = args[1]
    /\ args[1] = <<1, 0, 1, 1, 0, 1, 0, 1>>

\* C3: an encrypt or decrypt call of sdes on a block that is not exactly
\* 8 bits wide fails (with InvalidBlockWidth) and returns no block.
C3_InvalidBlockWidth ==
    (fn = "sdes" /\ rets # <<>> /\ Len(args[1]) # BlockBits) =>
        rets[1].status # "returned" /\ rets[1].block = <<>>

\* C7: generateKeys returns K1 = P8(rotl(L,1) || rotl(R,1)) and
\* K2 = P8(rotl(L,3) || rotl(R,3)), L and R the 5-bit halves of P10(key); both
\* are 8 bits wide.
C7_KeySchedule ==
    (fn = "generateKeys" /\ rets # <<>>) =>
        LET L == SubSeq(P10Of(args[1]), 1, 5)
            R == SubSeq(P10Of(args[1]), 6, 10)
        IN  /\ Len(rets[1]) = 2
            /\ rets[1][1] = P8Of(rotl(L, 1) \o rotl(R, 1))
            /\ rets[1][2] = P8Of(rotl(L, 3) \o rotl(R, 3))
            /\ rets[1][1] \in BitVectors(BlockBits)
            /\ rets[1][2] \in BitVectors(BlockBits)

\* a key whose second round key differs between a cumulative shift of 3 and a
\* shift of 2 of the unshifted halves
C7_Witness ==
    /\ fn = "generateKeys" /\ rets # <<>>
    /\ LET L == SubSeq(P10Of(args[1]), 1, 5)
           R == SubSeq(P10Of(args[1]), 6, 10)
       IN  /\ rets[1][2] = P8Of(rotl(L, 3) \o rotl(R, 3))
           /\ rets[1][2] # P8Of(rotl(L, 2) \o rotl(R, 2))
           /\ rets[1][1] # rets[1][2]

\* C9: functionF returns (left XOR P4(S0(g0) || S1(g1))) || right, g0 and g1
\* the halves of E/P(right) XOR key, each S-box addressed with row = bits 0,3
\* and column = bits 1,2; the right half comes back unchanged.
C9_RoundFunction ==
    (fn = "functionF" /\ rets # <<>>) =>
        LET left  == args[1]
            right == args[2]
            g     == BitXorSeq(EPOf(right), args[3])
            g0    == SubSeq(g, 1, 4)
            g1    == SubSeq(g, 5, 8)
            p4    == P4Of(SboxLookup(g0, S0) \o SboxLookup(g1, S1))
        IN  /\ rets[1] = BitXorSeq(left, p4) \o right
            /\ Len(rets[1]) = 8
            /\ SubSeq(rets[1], 5, 8) = right

\* a call whose S-box groups are addressed differently by outer/inner bits
\* than by adjacent bits, and whose left half is changed
C9_Witness ==
    /\ fn = "functionF" /\ rets # <<>>
    /\ args[2] = <<0, 1, 1, 0>> /\ args[3] = <<1, 0, 0, 1, 0, 0, 1, 1>>
    /\ SubSeq(rets[1], 1, 4) # args[1]
    /\ SubSeq(rets[1], 5, 8) = args[2]

(***************************************************************************)
(* Claims about the menu of 01_des/des.cpp.                                *)
(***************************************************************************)
AllBits(s, n) == Len(s) = n /\ \A i \in 1..Len(s) : s[i] \in {Char0, Char1}

\* C10: in the menu, sdes is invoked only on a stored input of exactly 8 bits
\* and a stored key of exactly 10 bits; a string parseBits rejects leaves its
\* field empty; choice 4 with an empty input or key runs nothing and prints no
\* result.
C10_MenuSafety ==
    /\ input = <<>> \/ input \in BitVectors(BlockBits)
    /\ key = <<>> \/ key \in BitVectors(KeyBits)
    /\ sdesArgs # <<>> =>
          /\ choice = 4
          /\ sdesArgs[1] \in BitVectors(BlockBits)
          /\ sdesArgs[2] \in BitVectors(KeyBits)
          /\ output.text = "Result: " /\ output.bits \in BitVectors(BlockBits)
    /\ (choice = 1 /\ ~AllBits(entered, BlockBits)) => input = <<>>
    /\ (choice = 2 /\ ~AllBits(entered, KeyBits)) => key = <<>>
    /\ (choice = 4 /\ (input = <<>> \/ key = <<>>)) =>
          /\ sdesArgs = <<>>
          /\ output = Printed("Please enter input and key first.", <<>>)

\* choice 4 has run sdes in decrypt mode on an entered input and key
C10_Witness ==
    /\ choice = 4 /\ sdesArgs # <<>> /\ sdesArgs[3] = TRUE
    /\ output.text = "Result: " /\ output.bits # input
    /\ input = <<1, 0, 1, 0, 1, 0, 1, 0>>

(***************************************************************************)
(* Claims about cipher B and power.  Bytes are combined here bit by bit,   *)
(* not through the code's operators.                                       *)
(***************************************************************************)
BitAt(x, i) == (x \div 2^i) % 2
XorBit(x, y, i) == 2^i * ((BitAt(x, i) + BitAt(y, i)) % 2)
Xor8(x, y) ==
    XorBit(x, y, 0) + XorBit(x, y, 1) + XorBit(x, y, 2) + XorBit(x, y, 3)
    + XorBit(x, y, 4) + XorBit(x, y, 5) + XorBit(x, y, 6) + XorBit(x, y, 7)
SwapNibbles(w) == (w % 16) * 16 + (w \div 16)
SubNibblesOfByte(w) == 16 * AES_sBox[(w \div 16) + 1] + AES_sBox[(w % 16) + 1]
RECURSIVE Pow(_, _)
Pow(b, e) == IF e = 0 THEN 1 ELSE b * Pow(b, e - 1)

\* C2: for every key and plaintext, Decrypt(Encrypt(p)) on a SimplifiedAES
\* built from the key is p; key 0x4AF5 with plaintext 0xD728 decrypts back to
\* 0xD728.
C2_RoundTrip ==
    aesPc = "decrypted" =>
        /\ dec = plaintext
        /\ (aesKey = 19189 /\ plaintext = 55080) => dec = 55080

\* main()'s own run: 0xD728 under 0x4AF5 encrypts to 0x24EC
C2_Witness ==
    /\ aesPc = "decrypted"
    /\ aesKey = 19189 /\ plaintext = 55080
    /\ enc = 9452
    /\ dec = 55080

\* C4: after any sequence of Encrypt and Decrypt calls the stored round keys
\* are still keyExpansion(key), and two calls of the same operation with the
\* same argument returned the same value.
C4_KeysImmutable ==
    aesPc = "object" =>
        /\ <<preRoundKey, round1Key, round2Key>> = keyExpansion(aesKey)
        /\ \A c1 \in calls, c2 \in calls :
              (c1.op = c2.op /\ c1.arg = c2.arg) => c1.ret = c2.ret

C4_Witness ==
    /\ aesPc = "object"
    /\ Cardinality(calls) = 2 * NumEngineBlocks
    /\ \E c \in calls : c.op = "Encrypt" /\ c.ret # c.arg
    /\ <<preRoundKey, round1Key, round2Key>> = keyExpansion(aesKey)

\* C5: power(base, exp, modulus) is (base^exp) mod modulus for every
\* base >= 0, exp >= 0 and modulus >= 1, exp = 0 and modulus = 1 included.
C5_Power ==
    (fn = "power" /\ rets # <<>>) =>
        rets[1] = Pow(args[1], args[2]) % args[3]

\* C6: gfMult(a, 0) = 0, gfMult(a, b) = gfMult(b, a), and the product is a
\* 4-bit value, for all 4-bit a and b.
C6_GfMult ==
    (fn = "gfMult" /\ rets # <<>>) =>
        /\ rets[3] = 0
        /\ rets[1] = rets[2]
        /\ rets[1] \in 0..15

\* a product whose computation shifts a past four bits
C6_Witness ==
    /\ fn = "gfMult" /\ rets # <<>>
    /\ args = <<13, 7>>
    /\ rets[1] = rets[2] /\ rets[1] # 0 /\ rets[3] = 0

\* C8: keyExpansion gives w0||w1, w2||w3 and w4||w5 with
\* w2 = w0 XOR subWord(rotWord(w1)) XOR 0x80, w3 = w2 XOR w1,
\* w4 = w2 XOR subWord(rotWord(w3)) XOR 0x30, w5 = w4 XOR w3, each w a byte.
C8_KeyExpansion ==
    (fn = "keyExpansion" /\ rets # <<>>) =>
        LET w0 == args[1] \div 256
            w1 == args[1] % 256
            w2 == Xor8(Xor8(w0, SubNibblesOfByte(SwapNibbles(w1))), 128)
            w3 == Xor8(w2, w1)
            w4 == Xor8(Xor8(w2, SubNibblesOfByte(SwapNibbles(w3))), 48)
            w5 == Xor8(w4, w3)
        IN  /\ {w2, w3, w4, w5} \subseteq 0..255
            /\ stateToInt(rets[1][1]) = w0 * 256 + w1
            /\ stateToInt(rets[1][2]) = w2 * 256 + w3
            /\ stateToInt(rets[1][3]) = w4 * 256 + w5
            /\ rets[1][2] = <<w2 \div 16, w3 \div 16, w2 % 16, w3 % 16>>
            /\ rets[1][3] = <<w4 \div 16, w5 \div 16, w4 % 16, w5 % 16>>

\* the key of main(): its w1 has two different nibbles, so the swap shows
C8_Witness ==
    /\ fn = "keyExpansion" /\ rets # <<>>
    /\ args[1] = 19189
    /\ stateToInt(rets[1][1]) = 19189
    /\ stateToInt(rets[1][2]) # stateToInt(rets[1][3])

====
